---- MODULE Spec2Model ----
(***************************************************************************)
(* Prometheus-Gateway: the request pipeline of POST /v1/chat/completions   *)
(* (app/main.py, app/services.py) with the exact cache (app/cache.py), the *)
(* semantic cache (app/vector_cache.py), the API-key authentication        *)
(* (app/dependencies.py, app/crud/api_key.py, app/security.py), the rate   *)
(* limiter (app/limiter.py), the PII scrubbing (app/dlp/dlp_scanner.py,    *)
(* app/middleware/dlp_middleware.py), the provider routing (app/config.py, *)
(* get_provider), the three adapters (app/providers) and the Prometheus    *)
(* metrics (app/metrics.py).                                               *)
(*                                                                         *)
(* Python values: Optional[x] is a sequence of length at most one (None is *)
(* <<>>); a dict is the sequence of its <<key, value>> items in insertion  *)
(* order, which is the order FastAPI serialises a returned dict in.        *)
(***************************************************************************)
EXTENDS Integers, Sequences, FiniteSets, TLC

VARIABLES
    redis,       \* exact cache (Redis): cache key -> Optional[stored JSON text]
    collection,  \* ChromaDB collection "semantic_cache": set of [id, text]
    api_keys,    \* table api_keys: set of rows [hashed_key, owner, is_active]
    storage,     \* limiter storage: principal -> [hits, age] of its window
    req,         \* the HTTP requests in flight, one record per slot
    config,      \* app.config.config.providers: the list of ProviderConfig
    environ,     \* os.environ: variable name -> Optional[value]
    called,      \* the last direct call of get_provider or of an adapter
    added,       \* history: the [id, text] passed to add_to_semantic_cache
    written,     \* history: key -> Optional[dict last stored with success]
    admits       \* history: principal -> admissions now and 30 s ago

vars == <<redis, collection, api_keys, storage, req, config, environ, called,
          added, written, admits>>

\* what the request pipeline leaves alone
routing == <<config, environ, called, added>>

None == <<>>
Some(x) == <<x>>
Range(s) == {s[i] : i \in 1..Len(s)}

-----------------------------------------------------------------------------
(* Bounds of the model.                                                    *)

\* the request slots: two requests can be in flight at the same time
Slots == {"r1", "r2"}

\* message contents; "" is the prompt text of a request without messages
Texts == {"hi", "hello"}

-----------------------------------------------------------------------------
(* app/models.py                                                           *)

ChatMessage(role, content) == [role |-> role, content |-> content]

\* temperature: Optional[float] defaults to 1.0 (held in tenths),
\* max_tokens: Optional[int] to None
ChatCompletionRequest(model, messages) ==
    [model |-> model, messages |-> messages, temperature |-> Some(10),
     max_tokens |-> None]

\* an optional field of a JSON payload: left out, or given with a value,
\* which is None for null
Omitted == <<>>
Given(value) == <<value>>

\* ChatCompletionRequest(**payload): a field left out takes its default and
\* a field given keeps its value, null included
model_validate(payload) ==
    [model |-> payload.model, messages |-> payload.messages,
     temperature |-> IF payload.temperature = Omitted THEN Some(10)
                     ELSE payload.temperature[1],
     max_tokens |-> IF payload.max_tokens = Omitted THEN None
                    ELSE payload.max_tokens[1]]

\* request.model_dump(): every field is given
model_dump(request) ==
    [model |-> request.model, messages |-> request.messages,
     temperature |-> Given(request.temperature),
     max_tokens |-> Given(request.max_tokens)]

\* the validated requests the model sends: two one-message requests whose
\* texts are semantically close, and one with no message (List[ChatMessage]
\* accepts the empty list)
ValidRequests ==
    {ChatCompletionRequest("gpt-3.5-turbo", <<ChatMessage("user", t)>>) :
        t \in Texts}
    \cup {ChatCompletionRequest("gpt-3.5-turbo", <<>>)}

-----------------------------------------------------------------------------
(* app/dlp/dlp_scanner.py, app/middleware/dlp_middleware.py                *)

\* a message content in which Presidio finds an e-mail address, and what
\* the anonymizer makes of it
PiiText == "mail a@b.com"
ScrubbedText == "mail <EMAIL_ADDRESS>"

\* what happens inside the middleware: nothing, an exception of the
\* analyzer or the anonymizer, an exception of dispatch itself
DlpOutcomes == {"ok", "scrub_text error", "dispatch error"}

\* scrub_text(text_to_scrub): blank text is returned as it is, detected
\* entities are replaced, and on any exception the text is returned as
\* it came
scrub_text(text_to_scrub, outcome) ==
    IF text_to_scrub = "" \/ outcome = "scrub_text error"
    THEN text_to_scrub
    ELSE IF text_to_scrub = PiiText THEN ScrubbedText ELSE text_to_scrub

\* a middleware that hands every body on as it came
dispatch_unmodified(body, outcome) == body

\* a middleware that drops the body when its scrubbing fails
dispatch_dropping(body, outcome) ==
    IF outcome = "ok" /\ body.kind # "not-json" THEN body
    ELSE [body EXCEPT !.kind = "not-json"]

\* DlpMiddleware.dispatch, up to call_next: the body handed on. A body
\* that is not JSON is handed on as it is; otherwise the content of every
\* message is scrubbed and the body written again; an exception on the
\* way is swallowed and the body handed on as it came
dispatch(body, outcome) ==
    IF body.kind = "not-json" \/ outcome = "dispatch error"
    THEN body
    ELSE [body EXCEPT !.request.messages =
             [i \in 1..Len(@) |->
                 [@[i] EXCEPT !.content = scrub_text(@, outcome)]]]

\* requests of the stages: with an e-mail address in the messages of two
\* roles, the same after scrubbing, and for a model no provider lists
PiiRequest ==
    ChatCompletionRequest("gpt-3.5-turbo",
        <<ChatMessage("system", PiiText), ChatMessage("user", PiiText)>>)
ScrubbedRequest ==
    ChatCompletionRequest("gpt-3.5-turbo",
        <<ChatMessage("system", ScrubbedText),
          ChatMessage("user", ScrubbedText)>>)
FooRequest == ChatCompletionRequest("foo", <<ChatMessage("user", "hi")>>)
StageRequests ==
    {PiiRequest, ScrubbedRequest, FooRequest,
     ChatCompletionRequest("gpt-3.5-turbo", <<>>)}

-----------------------------------------------------------------------------
(* app/cache.py                                                            *)

\* hashlib.sha256(...).hexdigest(): collision-free on the model's inputs
sha256(text) == [sha256 |-> text]

\* a key that leaves temperature and max_tokens out
generate_cache_key_without_options(request) ==
    sha256(<<[i \in 1..Len(request.messages) |->
                 <<request.messages[i].content, request.messages[i].role>>],
             request.model>>)

\* request.model_dump() written by json.dumps(..., sort_keys=True): the
\* fields in the order max_tokens, messages, model, temperature, and inside
\* each message content before role
generate_cache_key(request) ==
    sha256(<<request.max_tokens,
             [i \in 1..Len(request.messages) |->
                 <<request.messages[i].content, request.messages[i].role>>],
             request.model,
             request.temperature>>)

CacheKeys == {generate_cache_key(q) : q \in ValidRequests \cup StageRequests}

\* the position of a dict key in sorted (code point) order
KeyRank(k) ==
    CASE k = "choices" -> 1
      [] k = "id" -> 2
      [] k = "usage" -> 3

IsSortedByKey(s) ==
    \A i, j \in 1..Len(s) : i < j => KeyRank(s[i][1]) < KeyRank(s[j][1])

\* json.dumps(value) without sort_keys: the items in insertion order
json_dumps(value) == [json |-> value]

\* json.dumps(value, sort_keys=True): the text lists the items in sorted
\* key order
json_dumps_sorted(value) ==
    [json |-> CHOOSE s \in [1..Len(value) -> Range(value)] :
                  Range(s) = Range(value) /\ IsSortedByKey(s)]

\* json.loads(text): a dict whose insertion order is the order of the text
json_loads(text) == text.json

\* Python's dict ==: the same items, in any order
DictEq(a, b) == Range(a) = Range(b)

\* what the Redis client does in one call
BackendOutcomes == {"ok", "RedisError", "Exception"}

\* a lookup that forgets its key and answers with any live entry
get_from_cache_any_key(key, outcome) ==
    CASE outcome = "ok" ->
            [value |-> IF \E k \in DOMAIN redis : redis[k] # None
                       THEN Some(json_loads(
                                redis[CHOOSE k \in DOMAIN redis :
                                          redis[k] # None][1]))
                       ELSE None,
             raised |-> FALSE]
      [] outcome = "RedisError" -> [value |-> None, raised |-> FALSE]
      [] outcome = "Exception" -> [value |-> None, raised |-> TRUE]

\* get_from_cache(key): (json.JSONDecodeError, RedisError) are caught and
\* answered None; any other exception leaves the function
get_from_cache(key, outcome) ==
    CASE outcome = "ok" ->
            [value |-> IF redis[key] # None
                       THEN Some(json_loads(redis[key][1])) ELSE None,
             raised |-> FALSE]
      [] outcome = "RedisError" -> [value |-> None, raised |-> FALSE]
      [] outcome = "Exception" -> [value |-> None, raised |-> TRUE]

\* set_to_cache(key, value): json.dumps(value, sort_keys=True), then SETEX
\* with the default expire_seconds; RedisError is caught and answered False
set_to_cache(key, value, outcome) ==
    IF outcome = "ok"
    THEN [redis |-> [redis EXCEPT ![key] = Some(json_dumps_sorted(value))],
          raised |-> FALSE, ok |-> TRUE]
    ELSE [redis |-> redis, raised |-> (outcome = "Exception"), ok |-> FALSE]

-----------------------------------------------------------------------------
(* app/vector_cache.py                                                     *)

\* 100 * (distance ChromaDB reports between the embeddings of two texts):
\* "hi" and "hello" are near each other, "hey" is as far from "hi" as the
\* default threshold allows, "howdy" just beyond, every other pair is far
\* apart
Distance(a, b) ==
    CASE a = b -> 0
      [] {a, b} = {"hi", "hello"} -> 3
      [] {a, b} = {"hi", "hey"} -> 5
      [] {a, b} = {"hi", "howdy"} -> 6
      [] OTHER -> 80

\* similarity_threshold = 0.95, times 100
SimilarityThreshold == 95

\* collection.query(n_results=1): the entries at the least distance
Nearest(text) ==
    {e \in collection :
        \A f \in collection : Distance(text, e.text) <= Distance(text, f.text)}

\* what the embedding model and ChromaDB do in one call
VectorOutcomes == {"ok", "Exception"}

\* a search that takes the nearest entry only above the threshold
search_above_threshold(text, similarity_threshold, outcome) ==
    IF outcome # "ok" \/ collection = {}
    THEN {None}
    ELSE {IF 100 - Distance(text, e.text) > similarity_threshold
          THEN Some(e.id) ELSE None : e \in Nearest(text)}

\* search_semantic_cache(text, similarity_threshold): the ids it can
\* return; None when the collection is empty, when 1 - distance is below
\* the threshold, and when the embedding or the query raises
search_semantic_cache_with(text, similarity_threshold, outcome) ==
    IF outcome # "ok" \/ collection = {}
    THEN {None}
    ELSE {IF 100 - Distance(text, e.text) >= similarity_threshold
          THEN Some(e.id) ELSE None : e \in Nearest(text)}

\* search_semantic_cache(text) with the default threshold, the embedding
\* model and ChromaDB at work
search_semantic_cache(text) ==
    search_semantic_cache_with(text, SimilarityThreshold, "ok")

\* add_to_semantic_cache(redis_cache_key, text): collection.add does not
\* replace an entry whose id exists, and an exception of the embedding
\* model or of ChromaDB is swallowed
add_to_semantic_cache(redis_cache_key, text, outcome) ==
    IF outcome # "ok" \/ \E e \in collection : e.id = redis_cache_key
    THEN collection
    ELSE collection \cup {[text |-> text, id |-> redis_cache_key]}

-----------------------------------------------------------------------------
(* app/security.py, app/crud/api_key.py, app/dependencies.py               *)

\* hashlib.sha256(api_key.encode()).hexdigest()
hash_api_key(api_key) == sha256(api_key)

\* db_session.query(APIKey).filter(APIKey.hashed_key == hashed_key).first()
get_db_api_key_from_hash(hashed_key) ==
    IF \E row \in api_keys : row.hashed_key = hashed_key
    THEN Some(CHOOSE row \in api_keys : row.hashed_key = hashed_key)
    ELSE None

\* what the database does with the query of get_db_api_key_from_hash
LookupOutcomes == {"ok", "OperationalError"}

\* a dependency that accepts every key that has a row, active or not
get_valid_api_key_any_row(x_api_key, lookup) ==
    LET db_api_key == get_db_api_key_from_hash(hash_api_key(x_api_key))
    IN IF lookup # "ok"
       THEN [status |-> 500, owner |-> None]
       ELSE IF db_api_key = None
       THEN [status |-> 401, owner |-> None]
       ELSE [status |-> 200, owner |-> Some(db_api_key[1].owner)]

\* get_valid_api_key(x_api_key): 401 unless the row exists and is active;
\* an exception of the query is not caught and leaves the dependency, which
\* the server answers 500
get_valid_api_key(x_api_key, lookup) ==
    LET db_api_key == get_db_api_key_from_hash(hash_api_key(x_api_key))
    IN IF lookup # "ok"
       THEN [status |-> 500, owner |-> None]
       ELSE IF db_api_key = None \/ ~db_api_key[1].is_active
       THEN [status |-> 401, owner |-> None]
       ELSE [status |-> 200, owner |-> Some(db_api_key[1].owner)]

-----------------------------------------------------------------------------
(* app/config.py, app/services.py: get_provider                            *)

\* the provider names get_provider has an adapter for, and one it has not
AdapterNames == {"openai", "google", "anthropic"}
ProviderNames == AdapterNames \cup {"future_provider"}

\* model ids that configurations list, one that none lists, and one that
\* differs from a listed id in case only
ListedModels == {"gpt-3.5-turbo", "shared-model"}
UnlistedModel == "foo"
ModelIds == ListedModels \cup {UnlistedModel, "GPT-3.5-TURBO"}

\* the variables that hold the credentials, and what the second may hold
EnvNames == {"TEST_OPENAI_API_KEY", "MISSING_API_KEY"}
EnvValues == {None, Some(""), Some("sk-other")}

ProviderConfig(name, api_key_env, models) ==
    [name |-> name, api_key_env |-> api_key_env, models |-> models]

\* the longest configuration drawn
MaxProviders == 2

\* Config.providers: every list of up to MaxProviders entries
Configs ==
    UNION {[1..n -> {ProviderConfig(name, env, models) :
                        name \in ProviderNames, env \in EnvNames,
                        models \in SUBSET ListedModels}] :
              n \in 0..MaxProviders}

\* the configuration and environment the gateway is started with
StartConfig ==
    <<ProviderConfig("openai", "TEST_OPENAI_API_KEY", {"gpt-3.5-turbo"})>>
StartEnviron ==
    [name \in EnvNames |->
        IF name = "TEST_OPENAI_API_KEY" THEN Some("sk-upstream") ELSE None]

\* ProviderConfig.api_key: os.getenv(api_key_env); ValueError if the
\* variable is unset or empty
env_api_key(provider_config) ==
    LET key == environ[provider_config.api_key_env]
    IN IF key = None \/ key = Some("")
       THEN [value |-> "", raised |-> TRUE]
       ELSE [value |-> key[1], raised |-> FALSE]

\* the loop of get_provider from entry i on: an entry that lists the model
\* returns its adapter if its name is one of the three, reading the
\* credential; an entry that lists it under another name falls through
\* to the next entry
RECURSIVE scan_providers(_, _)
scan_providers(i, model_name) ==
    IF i > Len(config)
    THEN [raised |-> "ValueError",
          detail |-> <<"No provider found for model: ", model_name>>,
          provider |-> None]
    ELSE LET provider_config == config[i]
         IN IF /\ model_name \in provider_config.models
               /\ provider_config.name \in AdapterNames
            THEN IF env_api_key(provider_config).raised
                 THEN [raised |-> "ValueError",
                       detail |-> <<"Environment variable ",
                                    provider_config.api_key_env,
                                    " not set.">>,
                       provider |-> None]
                 ELSE [raised |-> "", detail |-> <<>>,
                       provider |->
                           Some([api_key |-> env_api_key(provider_config).value,
                                 type |-> provider_config.name])]
            ELSE scan_providers(i + 1, model_name)

\* a loop that runs from the last entry to the first
RECURSIVE scan_providers_backwards(_, _)
scan_providers_backwards(i, model_name) ==
    IF i < 1
    THEN [raised |-> "ValueError",
          detail |-> <<"No provider found for model: ", model_name>>,
          provider |-> None]
    ELSE LET provider_config == config[i]
         IN IF /\ model_name \in provider_config.models
               /\ provider_config.name \in AdapterNames
            THEN IF env_api_key(provider_config).raised
                 THEN [raised |-> "ValueError",
                       detail |-> <<"Environment variable ",
                                    provider_config.api_key_env,
                                    " not set.">>,
                       provider |-> None]
                 ELSE [raised |-> "", detail |-> <<>>,
                       provider |->
                           Some([api_key |-> env_api_key(provider_config).value,
                                 type |-> provider_config.name])]
            ELSE scan_providers_backwards(i - 1, model_name)

get_provider_last_entry(model_name) ==
    scan_providers_backwards(Len(config), model_name)

get_provider(model_name) == scan_providers(1, model_name)

-----------------------------------------------------------------------------
(* app/providers: the adapters                                             *)

\* what the upstream of an adapter does with one call: status 200 with a
\* completion text and its token counts, status 200 with an empty or a
\* blocked content, or an HTTP error status with its message
Upstreams ==
    {[text |-> "sunny today", status |-> 200, blocked |-> FALSE,
      input_tokens |-> 4, output_tokens |-> 2],
     [text |-> "", status |-> 200, blocked |-> FALSE,
      input_tokens |-> 4, output_tokens |-> 0],
     [text |-> "", status |-> 200, blocked |-> TRUE,
      input_tokens |-> 4, output_tokens |-> 0],
     [text |-> "invalid api key", status |-> 401, blocked |-> FALSE,
      input_tokens |-> 0, output_tokens |-> 0],
     [text |-> "slow down", status |-> 429, blocked |-> FALSE,
      input_tokens |-> 0, output_tokens |-> 0],
     [text |-> "overloaded", status |-> 503, blocked |-> FALSE,
      input_tokens |-> 0, output_tokens |-> 0]}

\* the text that stands for a content the Gemini client does not give out
Apology == "I apologize, but I cannot generate a response at this time."

\* time.time() at the call
Times == {1700000000, 1700000001}

\* len(text.split())
WordCount(text) ==
    CASE text = "" -> 0
      [] text \in {"hi", "hello"} -> 1
      [] text \in {"sunny today", "hi there"} -> 2
      [] text = Apology -> 11

\* len(" ".join(contents).split()): the words of all the messages
RECURSIVE PromptWords(_)
PromptWords(messages) ==
    IF messages = <<>> THEN 0
    ELSE WordCount(Head(messages).content) + PromptWords(Tail(messages))

\* a dict whose total_tokens leaves the prompt tokens out
openai_response_without_prompt(id, created, model_name, response_text, finish_reason, prompt_tokens, completion_tokens) ==
    << <<"id", id>>,
       <<"object", "chat.completion">>,
       <<"created", created>>,
       <<"model", model_name>>,
       <<"choices", <<[finish_reason |-> finish_reason,
                       index |-> 0,
                       message |-> [role |-> "assistant",
                                    content |-> response_text]]>> >>,
       <<"usage", [prompt_tokens |-> prompt_tokens,
                   completion_tokens |-> completion_tokens,
                   total_tokens |-> completion_tokens]>> >>

\* the dict both translating adapters build, keys in the order written
openai_response(id, created, model_name, response_text, finish_reason, prompt_tokens, completion_tokens) ==
    << <<"id", id>>,
       <<"object", "chat.completion">>,
       <<"created", created>>,
       <<"model", model_name>>,
       <<"choices", <<[finish_reason |-> finish_reason,
                       index |-> 0,
                       message |-> [role |-> "assistant",
                                    content |-> response_text]]>> >>,
       <<"usage", [prompt_tokens |-> prompt_tokens,
                   completion_tokens |-> completion_tokens,
                   total_tokens |-> prompt_tokens + completion_tokens]>> >>

\* the body api.openai.com answers with
openai_json(request, upstream) ==
    IF upstream.status = 200
    THEN openai_response(<<"chatcmpl-", "upstream">>, 1699999999,
                         request.model, upstream.text, "stop",
                         upstream.input_tokens, upstream.output_tokens)
    ELSE << <<"error", upstream.text>> >>

\* OpenAIProvider.create_completion: raise_for_status(), else the upstream
\* JSON as it is
OpenAIProvider_create_completion(request, upstream, now) ==
    IF upstream.status = 200
    THEN [value |-> openai_json(request, upstream),
          raised |-> "", status |-> 0]
    ELSE [value |-> openai_json(request, upstream),
          raised |-> "HTTPStatusError", status |-> upstream.status]

\* GoogleProvider.create_completion: the prompt tokens are the words of the
\* messages and the completion tokens the words of the text; a blocked
\* answer gets the apology; every error is raised again as Exception
GoogleProvider_create_completion(request, upstream, now) ==
    IF upstream.status = 200
    THEN LET response_text ==
                 IF upstream.blocked THEN Apology ELSE upstream.text
         IN [value |-> openai_response(<<"chatcmpl-", now>>, now,
                           request.model, response_text, "stop",
                           PromptWords(request.messages),
                           WordCount(response_text)),
             raised |-> "", status |-> 0]
    ELSE [value |-> <<>>, raised |-> "Exception", status |-> 0]

\* AnthropicProvider.create_completion: the token counts are those of the
\* upstream usage; every error is raised again as Exception
AnthropicProvider_create_completion(request, upstream, now) ==
    IF upstream.status = 200
    THEN [value |-> openai_response(<<"chatcmpl-", now>>, now,
                        request.model, upstream.text, "end_turn",
                        upstream.input_tokens, upstream.output_tokens),
          raised |-> "", status |-> 0]
    ELSE [value |-> <<>>, raised |-> "Exception", status |-> 0]

\* the generation parameters GoogleProvider.create_completion sends:
\* max_tokens None becomes 1000 and temperature None 0.7 (in tenths)
GoogleProvider_generation_config(request) ==
    [temperature |-> IF request.temperature = None THEN 7
                     ELSE request.temperature[1],
     max_tokens |-> IF request.max_tokens = None THEN 1000
                    ELSE request.max_tokens[1]]

\* the parameters AnthropicProvider.create_completion sends:
\* max_tokens None becomes 4096 and temperature None 0.7 (in tenths)
AnthropicProvider_messages_create(request) ==
    [temperature |-> IF request.temperature = None THEN 7
                     ELSE request.temperature[1],
     max_tokens |-> IF request.max_tokens = None THEN 4096
                    ELSE request.max_tokens[1]]

\* the parameters the adapters that translate the request send upstream
upstream_parameters(type, request) ==
    CASE type = "google" -> GoogleProvider_generation_config(request)
      [] type = "anthropic" -> AnthropicProvider_messages_create(request)

\* provider.create_completion(request) by the type of the adapter
create_completion(type, request, upstream, now) ==
    CASE type = "openai" ->
             OpenAIProvider_create_completion(request, upstream, now)
      [] type = "google" ->
             GoogleProvider_create_completion(request, upstream, now)
      [] type = "anthropic" ->
             AnthropicProvider_create_completion(request, upstream, now)

-----------------------------------------------------------------------------
(* app/limiter.py, app/main.py: @limiter.limit("10/minute")                *)

\* "10/minute"
RateLimitPerMinute == 10

ClientHost == "10.0.0.1"

\* slowapi's get_remote_address: the client address, whatever the header
get_remote_address(header, client) == client

\* request.headers.get("x-api-key", request.client.host)
get_api_key_from_header(header, client) ==
    IF header # None THEN header[1] ELSE client

\* the principals the limiter can see
Plaintexts == {"sk-A", "sk-B"}
HeaderValues == Plaintexts \cup {"sk-unknown"}
Principals == HeaderValues \cup {ClientHost}

\* limiter.hit of the fixed-window strategy on the in-memory storage: the
\* first hit of a principal opens its window, every hit is counted (the
\* count is kept up to one past the limit, above which nothing reads it),
\* and the hit is admitted while the count is within the limit
hit(principal) ==
    LET entry == storage[principal]
        hits == IF entry.hits <= RateLimitPerMinute
                THEN entry.hits + 1 ELSE entry.hits
    IN [storage |-> [storage EXCEPT ![principal] =
                        [hits |-> hits,
                         age |-> IF entry.age = "none" THEN "new"
                                 ELSE entry.age]],
        admitted |-> hits <= RateLimitPerMinute]

-----------------------------------------------------------------------------
(* The requests.                                                           *)

\* the body of an HTTP request: not JSON at all, JSON that is no
\* ChatCompletionRequest, or a valid request
NoRequest == ChatCompletionRequest("", <<>>)
NotJson == [request |-> NoRequest, kind |-> "not-json"]
BadSchema == [request |-> NoRequest, kind |-> "bad-schema"]
ValidBody(q) == [request |-> q, kind |-> "valid"]

\* the X-API-Key header: absent, or a value
Headers == {None} \cup {Some(h) : h \in HeaderValues}

\* the responses stored and served: the first lists its keys as the
\* adapters and OpenAI do (id before choices), the second in sorted order
Responses ==
    { << <<"id", "chatcmpl-1">>, <<"choices", "sunny">>,
         <<"usage", [prompt_tokens |-> 4, completion_tokens |-> 2,
                     total_tokens |-> 6]>> >>,
      << <<"choices", "rainy">>, <<"id", "chatcmpl-2">>,
         <<"usage", [prompt_tokens |-> 1, completion_tokens |-> 1,
                     total_tokens |-> 2]>> >> }

\* a slot: where the request is (pc), what was sent (header, sent), how
\* DlpMiddleware fared and the body it handed on (dlp, body), how the query
\* of the key store fared (lookup), how the Prometheus client fared (sink),
\* the owner of its key, the response (status, result) and, as history, the calls it made on the caches
\* (trace), the stages it went through (stages), the calls it made on the
\* Prometheus metrics (emitted), the requests answered before it arrived
\* (after) and whether the entry of its cache key expired or was stored
\* again since it was answered
IdleReq ==
    [body |-> NotJson, lookup |-> "ok", status |-> 0, owner |-> None,
     header |-> None, pc |-> "idle", sent |-> NotJson, dlp |-> "ok",
     sink |-> "ok", result |-> None, trace |-> <<>>,
     stages |-> <<>>, emitted |-> <<>>, after |-> {},
     expired |-> FALSE, overwritten |-> FALSE]

\* no direct call has been made
NoCall == [op |-> "none"]

\* the gateway after start-up, whatever its configuration: empty caches,
\* an empty key table, no window open, no request
Started ==
    /\ redis = [k \in CacheKeys |-> None]
    /\ collection = {}
    /\ added = {}
    /\ api_keys = {}
    /\ storage = [p \in Principals |-> [hits |-> 0, age |-> "none"]]
    /\ req = [r \in Slots |-> IdleReq]
    /\ called = NoCall
    /\ written = [k \in CacheKeys |-> None]
    /\ admits = [p \in Principals |-> [prev |-> 0, cur |-> 0]]

Init ==
    /\ Started
    /\ config = StartConfig
    /\ environ = StartEnviron

\* the gateway started with any configuration and any environment
InitRoute ==
    /\ Started
    /\ config \in Configs
    /\ environ \in {[StartEnviron EXCEPT !["MISSING_API_KEY"] = value] :
                        value \in EnvValues}

\* the response of request r is sent
Respond(r, status, result, trace, stages, emitted) ==
    req' = [req EXCEPT ![r] = [@ EXCEPT !.pc = "done", !.status = status,
                                        !.result = result, !.trace = trace,
                                        !.stages = @ \o stages,
                                        !.emitted = emitted]]

-----------------------------------------------------------------------------
(* app/crud/api_key.py: create_db_api_key, run by create_key.py            *)

\* a creation that stores the row switched off
create_db_api_key_inactive(owner, plaintext_key) ==
    api_keys \cup {[hashed_key |-> hash_api_key(plaintext_key),
                    owner |-> owner, is_active |-> FALSE]}

\* generate_api_key() draws a key no row holds yet; the row stores its hash
create_db_api_key(owner, plaintext_key) ==
    api_keys \cup {[hashed_key |-> hash_api_key(plaintext_key),
                    owner |-> owner, is_active |-> TRUE]}

CreateKey(owner, plaintext_key) ==
    /\ get_db_api_key_from_hash(hash_api_key(plaintext_key)) = None
    /\ api_keys' = create_db_api_key(owner, plaintext_key)
    /\ UNCHANGED <<redis, collection, storage, req, written, admits>>
    /\ UNCHANGED routing

\* a key is deactivated out of band: its row stays, is_active becomes false
DeactivateKey(hashed_key) ==
    /\ \E row \in api_keys : row.hashed_key = hashed_key /\ row.is_active
    /\ api_keys' = {IF row.hashed_key = hashed_key
                    THEN [row EXCEPT !.is_active = FALSE] ELSE row :
                        row \in api_keys}
    /\ UNCHANGED <<redis, collection, storage, req, written, admits>>
    /\ UNCHANGED routing

-----------------------------------------------------------------------------
(* app/main.py: POST /v1/chat/completions                                  *)

\* dependencies solved with the body validated before the key is looked up
solve_dependencies_validating_first(header, body, lookup) ==
    IF body.kind = "not-json" \/ header = None
    THEN [status |-> 422, owner |-> None, stages |-> <<>>]
    ELSE IF body.kind # "valid"
    THEN [status |-> 422, owner |-> None, stages |-> <<"body validation">>]
    ELSE LET api_key == get_valid_api_key(header[1], lookup)
         IN [status |-> api_key.status, owner |-> api_key.owner,
             stages |-> <<"body validation", "authentication">>]

\* dependencies solved without the body being validated
solve_dependencies_unvalidated(header, body, lookup) ==
    IF body.kind = "not-json" \/ header = None
    THEN [status |-> 422, owner |-> None, stages |-> <<>>]
    ELSE LET api_key == get_valid_api_key(header[1], lookup)
         IN [status |-> api_key.status, owner |-> api_key.owner,
             stages |-> <<"authentication">>]

\* what FastAPI does with the request before the endpoint is called: the
\* body is parsed as JSON (422 if it is not JSON); the dependency
\* get_valid_api_key needs the header X-API-Key (Header(...): without it
\* the dependency is not called and the request is answered 422) and
\* raises 401 at once; then the body is validated as ChatCompletionRequest.
\* `stages` are the stages that ran.
solve_dependencies(header, body, lookup) ==
    IF body.kind = "not-json" \/ header = None
    THEN [status |-> 422, owner |-> None, stages |-> <<>>]
    ELSE LET api_key == get_valid_api_key(header[1], lookup)
         IN IF api_key.status # 200
            THEN [status |-> api_key.status, owner |-> api_key.owner,
                  stages |-> <<"authentication">>]
            ELSE [status |-> IF body.kind = "valid" THEN 200 ELSE 422,
                  owner |-> IF body.kind = "valid" THEN api_key.owner
                            ELSE None,
                  stages |-> <<"authentication", "body validation">>]

\* DlpMiddleware.dispatch runs before the route is looked up: it scrubs
\* every body it can parse
scrubbing(body) ==
    IF body.kind = "not-json" THEN <<>> ELSE <<"PII scrubbing">>

\* an arrival in which a 401 is recorded and the request goes on
ReceiveUnrejected(r, header, body, outcome, lookup) ==
    /\ req[r].pc = "idle"
    /\ LET forwarded == dispatch(body, outcome)
           solved == solve_dependencies(header, forwarded, lookup)
           goes_on == \/ solved.status = 200
                      \/ solved.status = 401 /\ body.kind = "valid"
       IN req' = [req EXCEPT ![r] =
                    [body |-> forwarded, lookup |-> lookup,
                     status |-> IF solved.status = 200 THEN 0
                                ELSE solved.status,
                     owner |-> solved.owner, header |-> header,
                     pc |-> IF goes_on THEN "limit" ELSE "done",
                     sent |-> body, dlp |-> outcome, sink |-> "ok",
                     result |-> None, trace |-> <<>>,
                     stages |-> scrubbing(body) \o solved.stages,
                     emitted |-> <<>>,
                     after |-> {s \in Slots : req[s].pc = "done"},
                     expired |-> FALSE, overwritten |-> FALSE]]
    /\ UNCHANGED <<redis, collection, api_keys, storage, written, admits>>
    /\ UNCHANGED routing

\* a request arrives: DlpMiddleware rewrites its body, then it is
\* authenticated and validated
Receive(r, header, body, outcome, lookup) ==
    /\ req[r].pc = "idle"
    /\ LET forwarded == dispatch(body, outcome)
           solved == solve_dependencies(header, forwarded, lookup)
       IN req' = [req EXCEPT ![r] =
                    [body |-> forwarded, lookup |-> lookup,
                     status |-> IF solved.status = 200 THEN 0
                                ELSE solved.status,
                     owner |-> solved.owner, header |-> header,
                     pc |-> IF solved.status = 200 THEN "limit"
                            ELSE "done",
                     sent |-> body, dlp |-> outcome, sink |-> "ok",
                     result |-> None, trace |-> <<>>,
                     stages |-> scrubbing(body) \o solved.stages,
                     emitted |-> <<>>,
                     after |-> {s \in Slots : req[s].pc = "done"},
                     expired |-> FALSE, overwritten |-> FALSE]]
    /\ UNCHANGED <<redis, collection, api_keys, storage, written, admits>>
    /\ UNCHANGED routing

\* the wrapper of @limiter.limit("10/minute") counts the request under its
\* principal; over the limit it is answered 429, otherwise chat_completions
\* starts and process_chat_completion sends the GET of its cache key
RateLimit(r) ==
    /\ req[r].pc = "limit"
    /\ LET principal == get_api_key_from_header(req[r].header, ClientHost)
           checked == hit(principal)
       IN /\ storage' = checked.storage
          /\ IF checked.admitted
             THEN /\ req' = [req EXCEPT ![r].pc = "get",
                                         ![r].stages =
                                             Append(@, "rate limiting")]
                  /\ admits' = [admits EXCEPT ![principal].cur = @ + 1]
             ELSE /\ Respond(r, 429, None, <<>>, <<"rate limiting">>, <<>>)
                  /\ UNCHANGED admits
    /\ UNCHANGED <<redis, collection, api_keys, written>>
    /\ UNCHANGED routing

-----------------------------------------------------------------------------
(* app/services.py: process_chat_completion                                *)

\* the calls a request makes on the caches, in order
GetCall(key, ret) == [key |-> key, op |-> "get_from_cache", ret |-> ret]
SearchCall(text, ret) ==
    [text |-> text, op |-> "search_semantic_cache", ret |-> ret]

\* a pipeline that runs the semantic search before it looks at the answer
\* of the exact cache
process_chat_completion_searching(request, outcome, found) ==
    LET cache_key == generate_cache_key(request)
        cached_response == get_from_cache(cache_key, outcome)
        calls == <<GetCall(cache_key, cached_response.value),
                   SearchCall("", found)>>
    IN IF cached_response.raised
       THEN [value |-> None, raised |-> "Exception", trace |-> <<>>]
       ELSE IF cached_response.value # None
       THEN [value |-> cached_response.value, raised |-> "", trace |-> calls]
       ELSE [value |-> None, raised |-> "TypeError", trace |-> calls]

\* a pipeline that calls the adapter a second time after a miss
process_chat_completion_retrying(request, outcome, found) ==
    LET cache_key == generate_cache_key(request)
        cached_response == get_from_cache(cache_key, outcome)
        first == <<GetCall(cache_key, cached_response.value)>>
        again == [op |-> "create_completion", ret |-> <<>>]
    IN IF cached_response.raised
       THEN [value |-> None, raised |-> "Exception", trace |-> <<>>]
       ELSE IF cached_response.value # None
       THEN [value |-> cached_response.value, raised |-> "", trace |-> first]
       ELSE [value |-> None, raised |-> "Exception",
             trace |-> first \o <<again, again>>]

\* process_chat_completion(request), from the answer of the first
\* get_from_cache on. `outcome` is what the Redis client does in that call
\* and `found` what search_semantic_cache returns if it is called.
\*   line 72: a cached response is returned;
\*   line 81: request.messages[-1] is a ChatMessage, a pydantic model, and
\*            has no attribute get: AttributeError;
\*   line 84: with no message prompt_text stays "", search_semantic_cache
\*            runs, and awaiting its return value (None or a str, it is a
\*            plain function) raises TypeError.
\* Lines 85 to 110 are never reached.
process_chat_completion(request, outcome, found) ==
    LET cache_key == generate_cache_key(request)
        cached_response == get_from_cache(cache_key, outcome)
        first == <<GetCall(cache_key, cached_response.value)>>
    IN CASE cached_response.raised ->
              [value |-> None, raised |-> "Exception", trace |-> <<>>]
         [] ~cached_response.raised /\ cached_response.value # None ->
              [value |-> cached_response.value, raised |-> "",
               trace |-> first]
         [] ~cached_response.raised /\ cached_response.value = None
              /\ Len(request.messages) > 0 ->
              [value |-> None, raised |-> "AttributeError", trace |-> first]
         [] OTHER ->
              [value |-> None, raised |-> "TypeError",
               trace |-> Append(first, SearchCall("", found))]

\* the except clauses of chat_completions: ValueError is answered 400,
\* httpx.HTTPStatusError with the status of the upstream response, any
\* other exception 500
exception_status(raised, upstream_status) ==
    CASE raised = "" -> 200
      [] raised = "ValueError" -> 400
      [] raised = "HTTPStatusError" -> upstream_status
      [] OTHER -> 500

\* the items of a dict
has_key(dict, key) == \E i \in 1..Len(dict) : dict[i][1] = key
item(dict, key) ==
    dict[CHOOSE i \in 1..Len(dict) : dict[i][1] = key][2]

\* a call on a metric of app/metrics.py: inc(amount) on a counter,
\* observe(duration) on the histogram (the duration is not modelled)
MetricCall(metric, owner, model, label, amount) ==
    [model |-> model, owner |-> owner, metric |-> metric, label |-> label,
     amount |-> amount]

\* token counters that add the prompt tokens under every token type
tokens_used_prompt_only(owner, model, result) ==
    IF ~has_key(result, "usage") THEN <<>>
    ELSE LET usage == item(result, "usage")
         IN <<MetricCall("gateway_tokens_used_total", owner, model,
                         "prompt", usage.prompt_tokens),
              MetricCall("gateway_tokens_used_total", owner, model,
                         "completion", usage.prompt_tokens),
              MetricCall("gateway_tokens_used_total", owner, model,
                         "total", usage.prompt_tokens)>>

\* the token counters of a returned result that has a usage item
tokens_used(owner, model, result) ==
    IF ~has_key(result, "usage") THEN <<>>
    ELSE LET usage == item(result, "usage")
         IN <<MetricCall("gateway_tokens_used_total", owner, model,
                         "prompt", usage.prompt_tokens),
              MetricCall("gateway_tokens_used_total", owner, model,
                         "completion", usage.completion_tokens),
              MetricCall("gateway_tokens_used_total", owner, model,
                         "total", usage.total_tokens)>>

\* a finally block that records every request as a success
record_metrics_as_success(owner, model, status_code) ==
    <<MetricCall("gateway_request_duration_seconds", owner, model, "", 0),
      MetricCall("gateway_requests_total", owner, model, "200", 1)>>

\* the finally block of chat_completions
record_metrics(owner, model, status_code) ==
    <<MetricCall("gateway_request_duration_seconds", owner, model, "", 0),
      MetricCall("gateway_requests_total", owner, model,
                 ToString(status_code), 1)>>

\* the stages process_chat_completion went through
stages_of(trace) ==
    <<"fingerprinting", "exact get">>
    \o (IF \E i \in 1..Len(trace) : trace[i].op = "search_semantic_cache"
        THEN <<"semantic search">> ELSE <<>>)

\* what the Prometheus client does with the calls of a request: all of
\* them work, or the first call on the token counter, the call on the
\* latency histogram or the call on the request counter raises
SinkOutcomes == {"ok", "tokens", "latency", "requests"}

\* chat_completions: the result is returned with status 200 after its
\* tokens are counted, an exception is answered by its except clause, and
\* the finally block records the request.  The token counters are
\* increased inside the try block, so an exception of theirs is answered
\* by `except Exception`; an exception raised in the finally block takes
\* the place of the result or of the HTTPException and leaves the handler,
\* which the server answers 500.
chat_completions(request, owner, outcome, found, sink) ==
    LET result == process_chat_completion(request, outcome, found)
        counting == result.raised = "" /\ has_key(result.value[1], "usage")
        raised == IF sink = "tokens" /\ counting THEN "Exception"
                  ELSE result.raised
        status_code == exception_status(raised, 0)
        recorded == record_metrics(owner, request.model, status_code)
    IN [status |-> IF sink \in {"latency", "requests"} THEN 500
                   ELSE status_code,
        result |-> IF raised = "" /\ sink \notin {"latency", "requests"}
                   THEN result.value ELSE None,
        trace |-> result.trace,
        stages |-> Append(stages_of(result.trace), "metric emission"),
        emitted |->
            (IF raised = ""
             THEN tokens_used(owner, request.model, result.value[1])
             ELSE <<>>)
            \o (CASE sink = "latency" -> <<>>
                  [] sink = "requests" -> <<recorded[1]>>
                  [] OTHER -> recorded)]

\* a handler that stores a response under the cache key of the request
\* whatever its outcome
ExactGetStoring(r, outcome, sink) ==
    /\ req[r].pc = "get"
    /\ \E found \in search_semantic_cache("") :
          LET answer == chat_completions(req[r].body.request, req[r].owner,
                                         outcome, found, sink)
          IN req' = [req EXCEPT ![r] =
                        [@ EXCEPT !.pc = "done", !.status = answer.status,
                                  !.result = answer.result,
                                  !.trace = answer.trace,
                                  !.stages = @ \o answer.stages,
                                  !.emitted = answer.emitted,
                                  !.sink = sink]]
    /\ redis' = [redis EXCEPT ![generate_cache_key(req[r].body.request)] =
                    Some(json_dumps_sorted(CHOOSE value \in Responses : TRUE))]
    /\ UNCHANGED <<collection, api_keys, storage, written, admits>>
    /\ UNCHANGED routing

\* a handler that waits until no other request is being processed
ExactGetWaiting(r, outcome, sink) ==
    /\ req[r].pc = "get"
    /\ \A other \in Slots \ {r} : req[other].pc # "get"
    /\ \E found \in search_semantic_cache("") :
          LET answer == chat_completions(req[r].body.request, req[r].owner,
                                         outcome, found, sink)
          IN req' = [req EXCEPT ![r] =
                        [@ EXCEPT !.pc = "done", !.status = answer.status,
                                  !.result = answer.result,
                                  !.trace = answer.trace,
                                  !.stages = @ \o answer.stages,
                                  !.emitted = answer.emitted,
                                  !.sink = sink]]
    /\ UNCHANGED <<redis, collection, api_keys, storage, written, admits>>
    /\ UNCHANGED routing

\* Redis answers the GET and the handler runs to its end
ExactGet(r, outcome, sink) ==
    /\ req[r].pc = "get"
    /\ \E found \in search_semantic_cache("") :
          LET answer == chat_completions(req[r].body.request, req[r].owner,
                                         outcome, found, sink)
          IN req' = [req EXCEPT ![r] =
                        [@ EXCEPT !.pc = "done", !.status = answer.status,
                                  !.result = answer.result,
                                  !.trace = answer.trace,
                                  !.stages = @ \o answer.stages,
                                  !.emitted = answer.emitted,
                                  !.sink = sink]]
    /\ UNCHANGED <<redis, collection, api_keys, storage, written, admits>>
    /\ UNCHANGED routing

\* the response has been written: the slot takes the next request
Finish(r) ==
    /\ req[r].pc = "done"
    /\ req' = [req EXCEPT ![r] = IdleReq]
    /\ UNCHANGED <<redis, collection, api_keys, storage, written, admits>>
    /\ UNCHANGED routing

-----------------------------------------------------------------------------
(* The caches as their own callers use them, and time.                     *)

\* the requests answered 200 from the entry of `key`
AnsweredFrom(key) ==
    {r \in Slots : /\ req[r].pc = "done" /\ req[r].status = 200
                   /\ generate_cache_key(req[r].body.request) = key}

\* set_to_cache(key, value) is called
SetToCache(key, value, outcome) ==
    /\ LET stored == set_to_cache(key, value, outcome)
       IN /\ redis' = stored.redis
          /\ written' = IF stored.ok
                        THEN [written EXCEPT ![key] = Some(value)]
                        ELSE written
          /\ req' = [r \in Slots |->
                       IF stored.ok /\ r \in AnsweredFrom(key)
                       THEN [req[r] EXCEPT !.overwritten = TRUE]
                       ELSE req[r]]
    /\ UNCHANGED <<collection, api_keys, storage, admits>>
    /\ UNCHANGED routing

\* the TTL of an entry (expire_seconds) runs out
RedisExpire(key) ==
    /\ redis[key] # None
    /\ redis' = [redis EXCEPT ![key] = None]
    /\ written' = [written EXCEPT ![key] = None]
    /\ req' = [r \in Slots |->
                 IF r \in AnsweredFrom(key)
                 THEN [req[r] EXCEPT !.expired = TRUE] ELSE req[r]]
    /\ UNCHANGED <<collection, api_keys, storage, admits>>
    /\ UNCHANGED routing

\* add_to_semantic_cache(redis_cache_key, text) is called
AddToSemanticCache(redis_cache_key, text, outcome) ==
    /\ collection' = add_to_semantic_cache(redis_cache_key, text, outcome)
    /\ added' = added \cup {[text |-> text, id |-> redis_cache_key]}
    /\ UNCHANGED <<redis, api_keys, storage, req, written, admits>>
    /\ UNCHANGED <<config, environ, called>>

\* thirty seconds pass: a window opened sixty seconds ago is over
Tick ==
    /\ \E p \in Principals : storage[p].age # "none" \/ admits[p].cur > 0
                             \/ admits[p].prev > 0
    /\ storage' = [p \in Principals |->
                     CASE storage[p].age = "new" ->
                              [storage[p] EXCEPT !.age = "old"]
                       [] storage[p].age = "old" ->
                              [hits |-> 0, age |-> "none"]
                       [] OTHER -> storage[p]]
    /\ admits' = [p \in Principals |-> [prev |-> admits[p].cur, cur |-> 0]]
    /\ UNCHANGED <<redis, collection, api_keys, req, written>>
    /\ UNCHANGED routing

\* search_semantic_cache(text, similarity_threshold) is called
SearchSemanticCache(text, similarity_threshold, outcome) ==
    /\ \E result \in search_semantic_cache_with(text, similarity_threshold,
                                                outcome) :
          called' = [outcome |-> outcome, text |-> text,
                     similarity_threshold |-> similarity_threshold,
                     index |-> collection, result |-> result,
                     op |-> "search_semantic_cache"]
    /\ UNCHANGED <<redis, collection, api_keys, storage, req, config, environ,
                   added, written, admits>>

\* the payloads whose requests are fingerprinted: they differ in model, in
\* the roles, contents, order and number of the messages, and in the
\* options, left out, null or given
KeyPayloads ==
    [model : {"gpt-3.5-turbo", "gpt-4"},
     messages : {<<ChatMessage("user", "hi")>>,
                 <<ChatMessage("system", "hi")>>,
                 <<ChatMessage("user", "hi"), ChatMessage("user", "hello")>>,
                 <<ChatMessage("user", "hello"), ChatMessage("user", "hi")>>},
     temperature : {Omitted, Given(Some(7)), Given(Some(10))},
     max_tokens : {Omitted, Given(None), Given(Some(100))}]

\* generate_cache_key is called on the requests of two payloads and on the
\* first request dumped and validated again
GenerateCacheKey(first, second) ==
    /\ called' = [op |-> "generate_cache_key",
                  first |-> model_validate(first),
                  second |-> model_validate(second),
                  keys |-> <<generate_cache_key(model_validate(first)),
                             generate_cache_key(model_validate(second)),
                             generate_cache_key(
                                 model_validate(
                                     model_dump(model_validate(first))))>>]
    /\ UNCHANGED <<redis, collection, api_keys, storage, req, config, environ,
                   added, written, admits>>

\* get_provider(model_name) is called
GetProvider(model_name) ==
    /\ called' = [model_name |-> model_name,
                  result |-> get_provider(model_name),
                  op |-> "get_provider"]
    /\ UNCHANGED <<redis, collection, api_keys, storage, req, config, environ,
                   added, written, admits>>

\* the requests handed to the adapters
AdapterRequests ==
    {ChatCompletionRequest(model, messages) :
        model \in ListedModels,
        messages \in {<<ChatMessage("user", "hi")>>,
                      <<ChatMessage("system", "hello"),
                        ChatMessage("user", "hi there")>>}}

\* create_completion(request) of an adapter is called and the upstream
\* answers
CreateCompletion(type, request, upstream, now) ==
    /\ called' = [request |-> request, type |-> type,
                  upstream |-> upstream, now |-> now,
                  result |-> create_completion(type, request, upstream, now),
                  op |-> "create_completion"]
    /\ UNCHANGED <<redis, collection, api_keys, storage, req, config, environ,
                   added, written, admits>>

\* the payloads whose requests are handed to the translating adapters:
\* the options left out, null or given
OptionPayloads ==
    [model : {"shared-model"},
     messages : {<<ChatMessage("user", "hi")>>},
     temperature : {Omitted, Given(None), Given(Some(2))},
     max_tokens : {Omitted, Given(None), Given(Some(100))}]

\* create_completion of the Google or the Anthropic adapter is called with
\* the request validated from a payload, and the upstream answers
CreateCompletionOf(type, payload, upstream, now) ==
    /\ type \in {"google", "anthropic"}
    /\ LET request == model_validate(payload)
       IN called' = [payload |-> payload, request |-> request,
                     type |-> type, upstream |-> upstream, now |-> now,
                     result |-> create_completion(type, request, upstream,
                                                  now),
                     op |-> "create_completion of a payload",
                     parameters |-> upstream_parameters(type, request)]
    /\ UNCHANGED <<redis, collection, api_keys, storage, req, config, environ,
                   added, written, admits>>

-----------------------------------------------------------------------------
(* Specifications.                                                         *)

\* the requests whose responses are stored and whose texts are indexed
Prompted == {q \in ValidRequests : Len(q.messages) > 0}

\* the caching pipeline: two requests under one valid key, while entries
\* are stored, expire and are indexed
Next ==
    \/ CreateKey("alice", "sk-A")
    \/ \E r \in Slots, q \in ValidRequests :
          Receive(r, Some("sk-A"), ValidBody(q), "ok", "ok")
    \/ \E r \in Slots : RateLimit(r)
    \/ \E r \in Slots, outcome \in BackendOutcomes : ExactGet(r, outcome, "ok")
    \/ \E q \in Prompted, value \in Responses, outcome \in BackendOutcomes :
          SetToCache(generate_cache_key(q), value, outcome)
    \/ \E key \in CacheKeys : RedisExpire(key)
    \/ \E q \in Prompted :
          AddToSemanticCache(generate_cache_key(q), q.messages[1].content,
                             "ok")

Spec == Init /\ [][Next]_vars

\* the bodies sent while keys are created and deactivated
AuthBodies ==
    {NotJson, BadSchema,
     ValidBody(ChatCompletionRequest("gpt-3.5-turbo",
                                     <<ChatMessage("user", "hi")>>))}

\* authentication: requests with any header and body, while keys are
\* created and deactivated
NextAuth ==
    \/ CreateKey("alice", "sk-A")
    \/ CreateKey("bob", "sk-B")
    \/ \E plaintext_key \in Plaintexts :
          DeactivateKey(hash_api_key(plaintext_key))
    \/ \E r \in Slots, header \in Headers, body \in AuthBodies :
          Receive(r, header, body, "ok", "ok")
    \/ \E r \in Slots : RateLimit(r)
    \/ \E r \in Slots : ExactGet(r, "ok", "ok")

SpecAuth == Init /\ [][NextAuth]_vars

\* the bodies sent while the key store succeeds or fails: the bodies of
\* AuthBodies and a request whose list of messages is empty
StoreBodies ==
    AuthBodies \cup {ValidBody(ChatCompletionRequest("gpt-3.5-turbo", <<>>))}

\* the key store: requests arrive while keys are created and deactivated
\* and the query of the store succeeds or raises
NextStore ==
    \/ CreateKey("alice", "sk-A")
    \/ DeactivateKey(hash_api_key("sk-A"))
    \/ \E r \in Slots, header \in Headers, body \in StoreBodies,
          lookup \in LookupOutcomes :
             Receive(r, header, body, "ok", lookup)
    \/ \E r \in Slots : RateLimit(r)
    \/ \E r \in Slots : ExactGet(r, "ok", "ok")

SpecStore == Init /\ [][NextStore]_vars

\* the request whose response is stored while the metrics are exercised
SinkRequest ==
    ChatCompletionRequest("gpt-3.5-turbo", <<ChatMessage("user", "hi")>>)

\* the metrics: requests under one key hit and miss the exact cache while
\* the calls on the metrics work or raise
NextSink ==
    \/ CreateKey("alice", "sk-A")
    \/ \E r \in Slots :
          Receive(r, Some("sk-A"), ValidBody(SinkRequest), "ok", "ok")
    \/ \E r \in Slots : RateLimit(r)
    \/ \E r \in Slots, outcome \in BackendOutcomes, sink \in SinkOutcomes :
          ExactGet(r, outcome, sink)
    \/ \E r \in Slots : Finish(r)
    \/ \E value \in Responses :
          SetToCache(generate_cache_key(SinkRequest), value, "ok")

SpecSink == Init /\ [][NextSink]_vars

\* the requests another principal sends within one of its windows
MaxOtherHits == 1

\* the body sent while the limiter is exercised
LimitBody == ValidBody(ChatCompletionRequest("gpt-3.5-turbo", <<>>))

\* rate limiting: the two slots are used again and again under one key
\* while time passes and a second key sends a few requests of its own
NextLimit ==
    \/ CreateKey("alice", "sk-A")
    \/ CreateKey("bob", "sk-B")
    \/ \E r \in Slots : Receive(r, Some("sk-A"), LimitBody, "ok", "ok")
    \/ \E r \in Slots :
          /\ storage["sk-B"].hits < MaxOtherHits
          /\ Receive(r, Some("sk-B"), LimitBody, "ok", "ok")
    \/ \E r \in Slots : RateLimit(r)
    \/ \E r \in Slots : ExactGet(r, "ok", "ok")
    \/ \E r \in Slots : Finish(r)
    \/ Tick

SpecLimit == Init /\ [][NextLimit]_vars

\* the bodies sent through the whole pipeline
StageBodies == {NotJson} \cup {ValidBody(q) : q \in StageRequests}

\* the gateway started with the key of its provider set or unset
InitStages ==
    /\ Started
    /\ config = StartConfig
    /\ environ \in {StartEnviron, [name \in EnvNames |-> None]}

\* the stages of a request: one request at a time, with or without a key,
\* while the key is created and deactivated, its window fills and
\* responses are stored
NextStages ==
    \/ CreateKey("alice", "sk-A")
    \/ DeactivateKey(hash_api_key("sk-A"))
    \/ \E header \in {None, Some("sk-A")}, body \in StageBodies,
          outcome \in DlpOutcomes :
             Receive("r1", header, body, outcome, "ok")
    \/ RateLimit("r1")
    \/ \E outcome \in BackendOutcomes : ExactGet("r1", outcome, "ok")
    \/ Finish("r1")
    \/ \E q \in {ScrubbedRequest, FooRequest}, value \in Responses :
          SetToCache(generate_cache_key(q), value, "ok")

SpecStages == InitStages /\ [][NextStages]_vars

\* the texts indexed and the texts searched for
IndexedTexts == {"hello", "hey", "howdy"}
SearchedTexts == {"hi", "hello"}

\* the semantic cache: entries are added under the keys of two requests and
\* texts are searched for, with the default threshold and a stricter one
NextSemantic ==
    \/ \E q \in Prompted, text \in IndexedTexts, outcome \in VectorOutcomes :
          AddToSemanticCache(generate_cache_key(q), text, outcome)
    \/ \E text \in SearchedTexts, similarity_threshold \in
             {SimilarityThreshold, 97}, outcome \in VectorOutcomes :
          SearchSemanticCache(text, similarity_threshold, outcome)

SpecSemantic == Init /\ [][NextSemantic]_vars

\* fingerprints: generate_cache_key on every pair of payloads
NextKey ==
    \E first, second \in KeyPayloads : GenerateCacheKey(first, second)

SpecKey == Init /\ [][NextKey]_vars

\* routing: get_provider under every configuration and environment
NextRoute ==
    \E model_name \in ModelIds : GetProvider(model_name)

SpecRoute == InitRoute /\ [][NextRoute]_vars

\* a configuration whose only entry lists the model of the requests under
\* a provider name get_provider has no adapter for
UnsupportedConfig ==
    <<ProviderConfig("future_provider", "TEST_OPENAI_API_KEY",
                     {"gpt-3.5-turbo"})>>

\* the gateway started with the model under a supported or an unsupported
\* provider name
InitUnsupported ==
    /\ Started
    /\ config \in {StartConfig, UnsupportedConfig}
    /\ environ = StartEnviron

\* requests for a model that is listed under an unsupported provider name
NextUnsupported ==
    \/ CreateKey("alice", "sk-A")
    \/ \E r \in Slots, q \in ValidRequests :
          Receive(r, Some("sk-A"), ValidBody(q), "ok", "ok")
    \/ \E r \in Slots : RateLimit(r)
    \/ \E r \in Slots : ExactGet(r, "ok", "ok")
    \/ \E r \in Slots : Finish(r)

SpecUnsupported == InitUnsupported /\ [][NextUnsupported]_vars

\* the handler of request r runs to its end, whatever Redis answers
Handled(r) ==
    \E outcome \in BackendOutcomes : ExactGet(r, outcome, "ok")

\* the requests in flight: two requests are received, limited and handled
\* side by side while a response is stored; the server runs the wrapper of
\* the limiter and the handler of every request it has accepted, and every
\* call the handler awaits returns or raises
NextLive ==
    \/ CreateKey("alice", "sk-A")
    \/ \E r \in Slots :
          Receive(r, Some("sk-A"), ValidBody(SinkRequest), "ok", "ok")
    \/ \E r \in Slots : RateLimit(r)
    \/ \E r \in Slots : Handled(r)
    \/ \E r \in Slots : Finish(r)
    \/ \E value \in Responses :
          SetToCache(generate_cache_key(SinkRequest), value, "ok")

SpecLive ==
    /\ Init /\ [][NextLive]_vars
    /\ \A r \in Slots : WF_vars(RateLimit(r)) /\ WF_vars(Handled(r))

\* the adapters: each one called with every request and upstream answer
NextAdapter ==
    \E type \in AdapterNames, request \in AdapterRequests,
       upstream \in Upstreams, now \in Times :
          CreateCompletion(type, request, upstream, now)

SpecAdapter == Init /\ [][NextAdapter]_vars

\* the options: the translating adapters called with every payload
NextOptions ==
    \E type \in {"google", "anthropic"}, payload \in OptionPayloads,
       upstream \in Upstreams, now \in Times :
          CreateCompletionOf(type, payload, upstream, now)

SpecOptions == Init /\ [][NextOptions]_vars

-----------------------------------------------------------------------------
(* Properties of the caching pipeline, checked under Spec.                 *)

\* the step in which request r is answered by chat_completions
Answered(r) == req[r].pc = "get" /\ req'[r].pc = "done"

\* the cache key of request r and the content of its last message
Key(r) == generate_cache_key(req[r].body.request)
LastContent(r) ==
    LET messages == req[r].body.request.messages
    IN IF Len(messages) > 0 THEN messages[Len(messages)].content ELSE ""

\* in that step get_from_cache returned an entry
Hit(r) == Len(req'[r].trace) >= 1 /\ req'[r].trace[1].ret # None

\* in that step get_from_cache returned None and Redis held no entry
Missed(r) ==
    /\ redis[Key(r)] = None
    /\ Len(req'[r].trace) >= 1 /\ req'[r].trace[1].ret = None

\* in that step Redis held the entry and the client failed to deliver it
BackendFailed(r) ==
    /\ redis[Key(r)] # None
    /\ req'[r].trace = <<>> \/ req'[r].trace[1].ret = None

\* the positions of the calls of `op` in a trace
Calls(trace, op) == {i \in 1..Len(trace) : trace[i].op = op}

\* C1: a request whose fingerprint has a live entry in the exact cache, and
\* whose get_from_cache returns it, is answered 200 with that entry after
\* the one get: no semantic search, no provider call and no cache write.
C1_ExactHit ==
    [][\A r \in Slots :
          (Answered(r) /\ redis[Key(r)] # None /\ Hit(r)) =>
             LET entry == Some(json_loads(redis[Key(r)][1]))
             IN /\ req'[r].status = 200
                /\ req'[r].result = entry
                /\ req'[r].trace = <<GetCall(Key(r), entry)>>
                /\ UNCHANGED <<redis, collection>>]_vars

\* a request has been answered from the exact cache
C1_Witness ==
    \E r \in Slots :
        /\ req[r].pc = "done" /\ req[r].status = 200
        /\ req[r].result # None
        /\ Len(req[r].trace) = 1 /\ req[r].trace[1].ret = req[r].result

\* C2: a request that misses the exact cache and for which the semantic
\* search returns nothing is answered 200 with the response of exactly one
\* create_completion call, after put(fingerprint, response) and
\* add(fingerprint, last content).
C2_FullMiss ==
    [][\A r \in Slots :
          (/\ Answered(r) /\ Missed(r)
           /\ search_semantic_cache(LastContent(r)) = {None}) =>
             LET t == req'[r].trace
             IN /\ req'[r].status = 200
                /\ Cardinality(Calls(t, "create_completion")) = 1
                /\ \A i \in Calls(t, "create_completion") :
                      req'[r].result = Some(t[i].ret)
                /\ \E i \in Calls(t, "set_to_cache") :
                      t[i].key = Key(r) /\ Some(t[i].value) = req'[r].result
                /\ \E i \in Calls(t, "add_to_semantic_cache") :
                      t[i].key = Key(r) /\ t[i].text = LastContent(r)]_vars

\* C3: a request that misses the exact cache while the semantic search
\* returns a fingerprint with a live exact entry is answered 200 with that
\* entry after exactly two gets: no provider call and no cache write.
C3_SemanticHit ==
    [][\A r \in Slots, k \in CacheKeys :
          (/\ Answered(r) /\ Missed(r)
           /\ search_semantic_cache(LastContent(r)) = {Some(k)}
           /\ redis[k] # None) =>
             LET t == req'[r].trace
             IN /\ req'[r].status = 200
                /\ req'[r].result = Some(json_loads(redis[k][1]))
                /\ Cardinality(Calls(t, "get_from_cache")) = 2
                /\ Calls(t, "create_completion") = {}
                /\ Calls(t, "set_to_cache") = {}
                /\ Calls(t, "add_to_semantic_cache") = {}
                /\ UNCHANGED <<redis, collection>>]_vars

\* C4: a request that misses the exact cache while the semantic search
\* returns a fingerprint whose exact entry is gone is handled as a full
\* miss: one create_completion call, its response returned and stored under
\* the request's own fingerprint, the stale semantic entry left in place.
C4_StaleSemanticEntry ==
    [][\A r \in Slots, k \in CacheKeys :
          (/\ Answered(r) /\ Missed(r)
           /\ search_semantic_cache(LastContent(r)) = {Some(k)}
           /\ redis[k] = None) =>
             LET t == req'[r].trace
             IN /\ req'[r].status = 200
                /\ Cardinality(Calls(t, "create_completion")) = 1
                /\ \A i \in Calls(t, "create_completion") :
                      req'[r].result = Some(t[i].ret)
                /\ \E i \in Calls(t, "set_to_cache") : t[i].key = Key(r)
                /\ \E i \in Calls(t, "add_to_semantic_cache") :
                      t[i].key = Key(r)
                /\ collection \subseteq collection']_vars

\* C5: what the exact cache holds for a key is the dict last stored under
\* it by a successful set_to_cache, until it expires or is stored again,
\* and a response returned from the exact cache has the keys and values of
\* that dict, listed in sorted key order.
C5_StoredResponse ==
    [][/\ \A k \in CacheKeys :
             written'[k] # None =>
                /\ redis'[k] # None
                /\ DictEq(json_loads(redis'[k][1]), written'[k][1])
       /\ \A r \in Slots :
             (Answered(r) /\ Hit(r)) =>
                /\ written[Key(r)] # None
                /\ req'[r].status = 200
                /\ req'[r].result # None
                /\ DictEq(req'[r].result[1], written[Key(r)][1])
                /\ IsSortedByKey(req'[r].result[1])]_vars

\* a response stored with its keys out of sorted order has been served
C5_Witness ==
    \E r \in Slots :
        /\ req[r].pc = "done" /\ req[r].status = 200
        /\ ~req[r].expired /\ ~req[r].overwritten
        /\ written[generate_cache_key(req[r].body.request)] # None
        /\ req[r].result
              # written[generate_cache_key(req[r].body.request)]
        /\ DictEq(req[r].result[1],
                  written[generate_cache_key(req[r].body.request)][1])

\* C5 as stated: a response returned from the exact cache is, item by item
\* in the same order, the response that was stored under the key.
C5_ByteForByte ==
    [][\A r \in Slots :
          (Answered(r) /\ Hit(r)) =>
              req'[r].result = written[Key(r)]]_vars

\* request r2 arrived after request r1, identical to it, had been answered
\* 200, and is answered in this step
Repeats(r2, r1) ==
    /\ Answered(r2)
    /\ r1 \in req[r2].after
    /\ req[r1].pc = "done" /\ req[r1].status = 200
    /\ req[r1].body = req[r2].body

C7_BackendErrorIsMiss ==
    [][\A r \in Slots :
          (Answered(r) /\ BackendFailed(r)) =>
             LET t == req'[r].trace
             IN /\ Len(t) >= 1 /\ t[1].ret = None
                /\ req'[r].status = 200
                /\ \E i \in Calls(t, "create_completion") :
                      req'[r].result = Some(t[i].ret)]_vars

-----------------------------------------------------------------------------
(* Properties of authentication, checked under SpecAuth.                   *)

\* the key store holds an active row for the hash of the header's value
ActiveRow(header) ==
    \E row \in api_keys :
        row.hashed_key = hash_api_key(header[1]) /\ row.is_active

\* the step in which request r arrives
Arrives(r) == req[r].pc = "idle" /\ req'[r].pc # "idle"

\* C8: a request whose body is JSON is answered 401 if and only if it
\* carries an X-API-Key header whose hash has no row in the key store or
\* an inactive one; a request is answered 401 only on arrival.
C8_Unauthorized ==
    [][\A r \in Slots :
          /\ Arrives(r) =>
                (req'[r].status = 401 <=>
                    /\ req'[r].body.kind # "not-json"
                    /\ req'[r].header # None
                    /\ ~ActiveRow(req'[r].header))
          /\ (req'[r].status = 401 /\ req[r].status # 401) => Arrives(r)]_vars

\* a request sent with a deactivated key has been answered 401
C8_Witness ==
    \E r \in Slots :
        /\ req[r].pc = "done" /\ req[r].status = 401
        /\ req[r].header # None
        /\ \E row \in api_keys :
              /\ row.hashed_key = hash_api_key(req[r].header[1])
              /\ ~row.is_active

\* C8 as stated: a request is answered 401 if and only if it carries no
\* X-API-Key header or the hash of the header has no active row.
C8_MissingHeaderIs401 ==
    [][\A r \in Slots :
          Arrives(r) =>
             (req'[r].status = 401 <=>
                 \/ req'[r].header = None
                 \/ ~ActiveRow(req'[r].header))]_vars

\* C9: the step that answers a request 401 reads and writes no cache and
\* calls no provider, and the request takes no step after it.
C9_RejectedGoesNoFurther ==
    [][\A r \in Slots :
          /\ (req'[r].status = 401 /\ req[r].status # 401) =>
                /\ req'[r].pc = "done"
                /\ req'[r].trace = <<>>
                /\ UNCHANGED <<redis, collection, written, storage>>
          /\ req[r].status = 401 =>
                req'[r] = req[r] \/ req'[r] = IdleReq]_vars

\* a request with a valid body and an unknown key has been answered 401
\* while another request was on its way through the pipeline
C9_Witness ==
    \E r, s \in Slots :
        /\ req[r].pc = "done" /\ req[r].status = 401
        /\ req[r].body.kind = "valid" /\ req[r].trace = <<>>
        /\ req[s].pc = "done" /\ req[s].status = 500

-----------------------------------------------------------------------------
(* Properties of rate limiting, checked under SpecLimit.                   *)

\* the principal of request r: the value of X-API-Key, else the address
Principal(r) ==
    IF req[r].header # None THEN req[r].header[1] ELSE ClientHost

\* the requests of principal p admitted in its current window
WindowAdmits(p) ==
    CASE storage[p].age = "none" -> 0
      [] storage[p].age = "new" -> admits[p].cur
      [] storage[p].age = "old" -> admits[p].prev + admits[p].cur

\* the step in which the limiter decides on request r
Limited(r) == req[r].pc = "limit" /\ req'[r].pc # "limit"

\* C10: within one window of a principal, the minute that its first
\* counted request opens, at most 10 requests are admitted and every
\* further one is answered 429, under any interleaving; the requests of a
\* principal leave the counts of the other principals alone.
C10_PerWindow ==
    [][\A r \in Slots :
          Limited(r) =>
             /\ req'[r].status = 429 <=>
                   WindowAdmits(Principal(r)) >= RateLimitPerMinute
             /\ req'[r].status # 429 => req'[r].pc = "get"
             /\ WindowAdmits(Principal(r))' <= RateLimitPerMinute
             /\ \A q \in Principals \ {Principal(r)} :
                   storage'[q] = storage[q] /\ admits'[q] = admits[q]]_vars

\* a request has been answered 429 after ten of its principal were
\* admitted in the window, another principal having sent one of its own
C10_Witness ==
    \E r \in Slots :
        /\ req[r].pc = "done" /\ req[r].status = 429
        /\ WindowAdmits(Principal(r)) = RateLimitPerMinute
        /\ \E q \in Principals \ {Principal(r)} : storage[q].hits > 0

\* C10 as stated: at no instant have more than 10 requests of a principal
\* been admitted within the last minute.
C10_AnyMinute ==
    \A p \in Principals : admits[p].prev + admits[p].cur <= RateLimitPerMinute

-----------------------------------------------------------------------------
(* Properties of the stages of a request, checked under SpecStages.        *)

\* the stages in the order in which the code runs them
CodeOrder ==
    <<"PII scrubbing", "authentication", "body validation", "rate limiting",
      "fingerprinting", "exact get", "semantic search", "provider call",
      "cache population", "metric emission">>

\* the stages in the order of the request pipeline as it is described
PipelineOrder ==
    <<"authentication", "rate limiting", "body validation", "PII scrubbing",
      "fingerprinting", "exact get", "semantic search", "provider call",
      "cache population", "metric emission">>

\* the place of a stage in an order
Place(order, stage) == CHOOSE i \in 1..Len(order) : order[i] = stage

\* the stages ran one after the other in the given order
InOrder(stages, order) ==
    \A i, j \in 1..Len(stages) :
        i < j => Place(order, stages[i]) < Place(order, stages[j])

\* C11: the stages of a request run strictly in the order PII scrubbing,
\* authentication, body validation, rate limiting, fingerprinting, exact
\* get, semantic search, provider call, cache population, metric emission;
\* a request that fails authentication is scrubbed, but it is neither
\* validated nor rate-limited nor does it change a window of the limiter;
\* a request with an invalid key is answered 401 however full the window of
\* its key is.
C11_StagesInOrder ==
    [][\A r \in Slots :
          /\ InOrder(req'[r].stages, CodeOrder)
          /\ (Arrives(r) /\ req'[r].status = 401) =>
                /\ req'[r].stages = <<"PII scrubbing", "authentication">>
                /\ req'[r].pc = "done"
                /\ storage' = storage
          /\ (/\ Arrives(r)
              /\ req'[r].sent.kind # "not-json"
              /\ req'[r].header # None
              /\ ~ActiveRow(req'[r].header)) => req'[r].status = 401]_vars

\* a request sent with a deactivated key whose window is full has been
\* answered 401 after its body was scrubbed
C11_Witness ==
    \E r \in Slots :
        /\ req[r].pc = "done" /\ req[r].status = 401
        /\ req[r].header # None
        /\ storage[req[r].header[1]].hits >= RateLimitPerMinute
        /\ req[r].sent # req[r].body
        /\ req[r].stages = <<"PII scrubbing", "authentication">>

\* C11 as stated: the stages run strictly in the order authentication, rate
\* limiting, body validation, PII scrubbing, fingerprinting, exact get,
\* semantic search, provider call, cache population, metric emission, and a
\* request that fails authentication is neither rate-limited nor scrubbed.
C11_AuthenticationFirst ==
    \A r \in Slots :
        /\ InOrder(req[r].stages, PipelineOrder)
        /\ req[r].status = 401 =>
              \A i \in 1..Len(req[r].stages) :
                  req[r].stages[i] \notin {"rate limiting", "PII scrubbing"}

\* a request with every content scrubbed by a scrubber that works
Scrubbed(request) ==
    [request EXCEPT !.messages =
        [i \in 1..Len(@) |->
            [@[i] EXCEPT !.content = scrub_text(@, "ok")]]]

\* the content of the last message of a request, "" if it has none
last_content(request) ==
    IF Len(request.messages) > 0
    THEN request.messages[Len(request.messages)].content ELSE ""

\* C12: when the scrubber works, the fingerprint of every exact-cache call
\* and the text of every semantic-cache call of a request are computed from
\* the scrubbed contents of its messages, whatever their roles, and never
\* from the text as it was sent.
C12_ScrubbedContents ==
    [][\A r \in Slots :
          (Answered(r) /\ req[r].dlp = "ok") =>
              \A i \in 1..Len(req'[r].trace) :
                  LET call == req'[r].trace[i]
                      scrubbed == Scrubbed(req[r].sent.request)
                  IN /\ call.op = "get_from_cache" =>
                           call.key = generate_cache_key(scrubbed)
                     /\ call.op = "search_semantic_cache" =>
                           call.text = last_content(scrubbed)]_vars

\* a request whose system and user messages held an e-mail address has
\* been looked up under the fingerprint of its scrubbed messages
C12_Witness ==
    \E r \in Slots :
        /\ req[r].pc = "done" /\ req[r].dlp = "ok"
        /\ req[r].sent = ValidBody(PiiRequest)
        /\ Len(req[r].trace) >= 1
        /\ req[r].trace[1].key = generate_cache_key(ScrubbedRequest)
        /\ req[r].trace[1].key # generate_cache_key(PiiRequest)

\* C13: when the scrubbing of a request fails, in scrub_text or in the
\* middleware, or its body is not JSON, the body is handed on as it was
\* sent and the request is answered as it is without scrubbing.
C13_ScrubberFailure ==
    [][\A r \in Slots :
          (/\ Arrives(r)
           /\ req'[r].dlp # "ok" \/ req'[r].sent.kind = "not-json") =>
              LET solved == solve_dependencies(req'[r].header, req'[r].sent,
                                               req'[r].lookup)
              IN /\ req'[r].body = req'[r].sent
                 /\ req'[r].status =
                       IF solved.status = 200 THEN 0 ELSE solved.status
                 /\ req'[r].pc =
                       IF solved.status = 200 THEN "limit" ELSE "done"]_vars

\* a request with an e-mail address whose scrubbing failed has gone through
\* the pipeline with its text as sent
C13_Witness ==
    \E r \in Slots :
        /\ req[r].pc = "done" /\ req[r].dlp # "ok"
        /\ req[r].sent = ValidBody(PiiRequest)
        /\ req[r].body = req[r].sent
        /\ Len(req[r].trace) >= 1
        /\ req[r].trace[1].key = generate_cache_key(PiiRequest)

\* the model of request r
Model(r) == req[r].body.request.model

\* C14: an authenticated request that names a model no provider lists is
\* answered 400 "No provider found for model: <model>", whatever the
\* caches hold.
C14_UnknownModelIs400 ==
    [][\A r \in Slots :
          (/\ Answered(r)
           /\ \A i \in 1..Len(config) : Model(r) \notin config[i].models
           /\ get_provider(Model(r)).raised = "ValueError") =>
              req'[r].status = 400]_vars

\* the first entry of the configuration that lists the model, 0 if none
FirstListing(model_name) ==
    IF \E i \in 1..Len(config) : model_name \in config[i].models
    THEN CHOOSE i \in 1..Len(config) :
            /\ model_name \in config[i].models
            /\ \A j \in 1..(i - 1) : model_name \notin config[j].models
    ELSE 0

\* C16: a request for a model whose first listing entry names an
\* environment variable that is unset or empty is answered 400 with the
\* ValueError "Environment variable <name> not set." of get_provider.
C16_MissingKeyIs400 ==
    [][\A r \in Slots :
          (/\ Answered(r)
           /\ FirstListing(Model(r)) > 0
           /\ env_api_key(config[FirstListing(Model(r))]).raised) =>
              req'[r].status = 400]_vars

-----------------------------------------------------------------------------
(* Properties of get_provider, checked under SpecRoute.                    *)

\* the first entry among `entries` that lists the model, 0 if none does
FirstOf(entries, model_name) ==
    IF \E i \in entries : model_name \in config[i].models
    THEN CHOOSE i \in entries :
            /\ model_name \in config[i].models
            /\ \A j \in entries : j < i => model_name \notin config[j].models
    ELSE 0

\* the entries named after an adapter
AdapterEntries == {i \in 1..Len(config) : config[i].name \in AdapterNames}

\* get_provider has returned the adapter of entry i with its credential
Returned(i) ==
    /\ called.result.raised = ""
    /\ called.result.provider =
          Some([api_key |-> environ[config[i].api_key_env][1],
                type |-> config[i].name])

\* C15: under every configuration, get_provider(model_id) goes by the
\* first entry that is named openai, google or anthropic and whose models
\* hold the id exactly: it returns the adapter named by that entry with the
\* credential of that entry, or raises the ValueError of a credential that
\* is not set; entries of any other name are passed over, and with no such
\* entry it raises ValueError "No provider found for model: <id>".
C15_FirstAdapterEntry ==
    called.op = "get_provider" =>
        LET first == FirstOf(AdapterEntries, called.model_name)
        IN CASE first = 0 ->
                  /\ called.result.raised = "ValueError"
                  /\ called.result.detail =
                        <<"No provider found for model: ", called.model_name>>
             [] first > 0 /\ env_api_key(config[first]).raised ->
                  /\ called.result.raised = "ValueError"
                  /\ called.result.detail =
                        <<"Environment variable ",
                          config[first].api_key_env, " not set.">>
             [] OTHER -> Returned(first)

\* the model is listed by an openai entry and then by a google entry with
\* another credential, and the OpenAI adapter with the first credential
\* has been returned
C15_Witness ==
    /\ called.op = "get_provider"
    /\ Len(config) = 2
    /\ called.model_name \in config[1].models \cap config[2].models
    /\ config[1].name = "openai" /\ config[2].name = "google"
    /\ environ[config[1].api_key_env] # environ[config[2].api_key_env]
    /\ environ[config[2].api_key_env] = Some("sk-other")
    /\ Returned(1)

\* C15 as stated: get_provider returns the adapter named by the first
\* entry whose models hold the id, whatever the name of that entry, with
\* the credential of that entry (taken here where the credential is set).
C15_FirstListingEntry ==
    (/\ called.op = "get_provider"
     /\ FirstOf(1..Len(config), called.model_name) > 0
     /\ ~env_api_key(config[FirstOf(1..Len(config),
                                    called.model_name)]).raised) =>
        Returned(FirstOf(1..Len(config), called.model_name))

-----------------------------------------------------------------------------
(* Properties of the adapters, checked under SpecAdapter.                  *)

\* C17: when the upstream of an adapter answers with an HTTP error status,
\* the exception the adapter raises makes chat_completions answer with that
\* status, for the OpenAI, the Google and the Anthropic adapter alike.
C17_UpstreamStatus ==
    (called.op = "create_completion" /\ called.upstream.status # 200) =>
        exception_status(called.result.raised, called.result.status)
            = called.upstream.status

\* the dict is a canonical ChatResponse
IsChatResponse(dict) ==
    /\ \A key \in {"id", "object", "created", "model", "choices", "usage"} :
          has_key(dict, key)
    /\ item(dict, "object") = "chat.completion"
    /\ item(dict, "created") \in Nat
    /\ Len(item(dict, "choices")) >= 1
    /\ item(dict, "choices")[1].message.role = "assistant"
    /\ LET usage == item(dict, "usage")
       IN /\ usage.prompt_tokens \in Nat
          /\ usage.completion_tokens \in Nat
          /\ usage.total_tokens =
                usage.prompt_tokens + usage.completion_tokens

-----------------------------------------------------------------------------
(* Properties of the metrics, checked under SpecStages and Spec.           *)

\* the step in which request r is answered, by the handler or before it
Terminates(r) == req[r].pc # "done" /\ req'[r].pc = "done"

\* the calls a request made on one metric
CallsOn(emitted, metric) ==
    SelectSeq(emitted, LAMBDA call : call.metric = metric)

\* C18: every request that is answered, whatever its status, has
\* incremented gateway_requests_total exactly once, by 1, under its owner,
\* its model and its status code.
C18_CountedOnce ==
    [][\A r \in Slots :
          Terminates(r) =>
              CallsOn(req'[r].emitted, "gateway_requests_total") =
                  <<MetricCall("gateway_requests_total", req'[r].owner,
                               req'[r].body.request.model,
                               ToString(req'[r].status), 1)>>]_vars

\* the increment of a token counter
TokenInc(r, token_type, amount) ==
    MetricCall("gateway_tokens_used_total", req'[r].owner,
               req'[r].body.request.model, token_type, amount)

\* C19: a request answered 200 has increased gateway_tokens_used_total by
\* the prompt, completion and total counts of the usage of the response it
\* returns, on every hit of a cached response anew; a request that ends
\* with another status has increased no token counter.
C19_TokensCounted ==
    [][\A r \in Slots :
          Terminates(r) =>
              CallsOn(req'[r].emitted, "gateway_tokens_used_total") =
                  IF req'[r].status = 200
                  THEN LET usage == item(req'[r].result[1], "usage")
                       IN <<TokenInc(r, "prompt", usage.prompt_tokens),
                            TokenInc(r, "completion",
                                     usage.completion_tokens),
                            TokenInc(r, "total", usage.total_tokens)>>
                  ELSE <<>>]_vars

\* a cached response has been returned to a request and to a later
\* identical one, and its six tokens have been counted both times
C19_Witness ==
    \E r1, r2 \in Slots :
        /\ r1 # r2 /\ r1 \in req[r2].after
        /\ req[r1].pc = "done" /\ req[r2].pc = "done"
        /\ req[r1].status = 200 /\ req[r2].status = 200
        /\ req[r1].result = req[r2].result
        /\ \A r \in {r1, r2} :
              \E i \in 1..Len(req[r].emitted) :
                  /\ req[r].emitted[i].label = "total"
                  /\ req[r].emitted[i].amount = 6

-----------------------------------------------------------------------------
(* Properties of the semantic cache, checked under SpecSemantic.           *)

\* the least distance between a text and the texts of an index
LeastDistance(text, index) ==
    CHOOSE d \in {Distance(text, e.text) : e \in index} :
        \A e \in index : d <= Distance(text, e.text)

-----------------------------------------------------------------------------
(* Further properties of the caching pipeline, checked under Spec.         *)

\* C22: every semantic lookup of a request is made with the content of its
\* last message, and only when that message has the role user.
C22_LastUserMessage ==
    [][\A r \in Slots :
          Answered(r) =>
              LET messages == req[r].body.request.messages
                  trace == req'[r].trace
              IN \A i \in Calls(trace, "search_semantic_cache") :
                    /\ Len(messages) > 0
                    /\ messages[Len(messages)].role = "user"
                    /\ trace[i].text = messages[Len(messages)].content]_vars

-----------------------------------------------------------------------------
(* Properties of generate_cache_key, checked under SpecKey.                *)

Concurrent(r1, r2) ==
    r1 # r2 /\ r1 \notin req[r2].after /\ r2 \notin req[r1].after

\* C24: of two concurrent requests with the same fingerprint that both
\* miss the caches, each calls the upstream and puts its response, and the
\* exact-cache entry of the fingerprint is then the response of the put
\* made last.
C24_BothCallUpstream ==
    [][\A r1, r2 \in Slots :
          (/\ Concurrent(r1, r2)
           /\ req[r1].pc = "done" /\ Key(r1) = Key(r2)
           /\ Len(req[r1].trace) >= 1 /\ req[r1].trace[1].ret = None
           /\ Answered(r2) /\ Missed(r2)
           /\ search_semantic_cache(LastContent(r2)) = {None}) =>
              LET t1 == req[r1].trace
                  t2 == req'[r2].trace
              IN /\ Calls(t1, "create_completion") # {}
                 /\ Calls(t2, "create_completion") # {}
                 /\ \E i \in Calls(t2, "set_to_cache") :
                       /\ t2[i].key = Key(r2)
                       /\ redis'[Key(r2)] =
                             Some(json_dumps_sorted(t2[i].value))]_vars


-----------------------------------------------------------------------------
(* Failures of the key store                                               *)

\* C25: a request whose key is looked up while the query of the key store
\* raises is answered 401 on arrival and is not admitted.
C25_FailClosed ==
    [][\A r \in Slots :
          (/\ Arrives(r)
           /\ req'[r].lookup # "ok"
           /\ req'[r].header # None
           /\ req'[r].body.kind # "not-json")
             => (req'[r].status = 401 /\ req'[r].pc = "done")]_vars


-----------------------------------------------------------------------------
(* Validation of the body, checked under SpecStore.                        *)

\* the body r sent is not a valid ChatCompletionRequest
Malformed(r) == req'[r].sent.kind # "valid"

\* C26: a request whose body is not a valid ChatCompletionRequest (not
\* JSON, or JSON with a field missing or of a wrong type) is answered on
\* arrival and never accesses a cache; it is answered 422, unless its body
\* is JSON and its key was refused first (401 without an active row, 500
\* when the query of the key store raised).  A valid request is not
\* answered on arrival when its key is active, be its list of messages
\* empty.
C26_MalformedBodyIs422 ==
    [][\A r \in Slots :
          /\ (/\ Arrives(r) /\ ~Malformed(r)
              /\ req'[r].header # None /\ req'[r].lookup = "ok"
              /\ ActiveRow(req'[r].header))
                => (req'[r].pc # "done" /\ req'[r].status = 0)
          /\ (req'[r].pc # "idle" /\ Malformed(r)) =>
                /\ req'[r].pc = "done"
                /\ req'[r].trace = <<>>
                /\ req'[r].result = None
                /\ Arrives(r) =>
                      /\ req'[r].status \in {422, 401, 500}
                      /\ req'[r].status = 422 <=>
                            \/ req'[r].sent.kind = "not-json"
                            \/ req'[r].header = None
                            \/ /\ req'[r].lookup = "ok"
                               /\ ActiveRow(req'[r].header)
                      /\ req'[r].status = 500 <=>
                            /\ req'[r].sent.kind # "not-json"
                            /\ req'[r].header # None
                            /\ req'[r].lookup # "ok"]_vars

\* a body that is JSON but no ChatCompletionRequest, sent with an active
\* key, has been answered 422
C26_Witness ==
    \E r \in Slots :
        /\ req[r].pc = "done" /\ req[r].sent.kind = "bad-schema"
        /\ req[r].header # None /\ ActiveRow(req[r].header)
        /\ req[r].lookup = "ok"
        /\ req[r].status = 422 /\ req[r].trace = <<>>

\* C26 as stated: a request whose body is not a valid ChatCompletionRequest,
\* or whose list of messages is empty, is answered 400 on arrival.
C26_InvalidBodyIs400 ==
    [][\A r \in Slots :
          (/\ Arrives(r)
           /\ \/ Malformed(r)
              \/ req'[r].sent.request.messages = <<>>)
             => (req'[r].status = 400 /\ req'[r].pc = "done")]_vars


-----------------------------------------------------------------------------
(* Failures of the metrics, checked under SpecSink.                        *)

\* C27: a request that found a response in the exact cache is answered 200
\* with that response, whatever the calls on the metrics do.
C27_SinkFailureSwallowed ==
    [][\A r \in Slots :
          (/\ Terminates(r)
           /\ Len(req'[r].trace) > 0
           /\ req'[r].trace[1].ret # None)
             => /\ req'[r].status = 200
                /\ req'[r].result = req'[r].trace[1].ret]_vars


-----------------------------------------------------------------------------
(* Properties of the options sent upstream, checked under SpecOptions.     *)

\* the default an adapter has for max_tokens
DefaultMaxTokens(type) == IF type = "google" THEN 1000 ELSE 4096

\* C28: for a payload that leaves out temperature the Google and Anthropic
\* adapters send temperature 0.7, for one that leaves out max_tokens they
\* send 1000 (Google) and 4096 (Anthropic), and a value given in the
\* payload is sent unchanged.
C28_AdapterDefaults ==
    called.op = "create_completion of a payload" =>
        /\ called.payload.temperature = Omitted =>
              called.parameters.temperature = 7
        /\ called.payload.max_tokens = Omitted =>
              called.parameters.max_tokens = DefaultMaxTokens(called.type)
        /\ called.request.temperature # None =>
              called.parameters.temperature = called.request.temperature[1]
        /\ called.request.max_tokens # None =>
              called.parameters.max_tokens = called.request.max_tokens[1]


-----------------------------------------------------------------------------
(* Properties of the key store, checked under SpecAuth.                    *)

\* the keys create_key.py hands out under SpecAuth, each with its owner
Issued == {<<"alice", "sk-A">>, <<"bob", "sk-B">>}

\* the rows a step adds to the key store
Created == api_keys' \ api_keys

\* C29: while keys are created and deactivated and requests authenticate,
\* every row of the key store holds the SHA-256 hash of an issued key, its
\* owner and its flag and nothing else; no two rows have the same
\* hashed_key; a row is created active; a valid request that presents an
\* issued key whose row is active is authenticated as the owner the key was
\* created for; and a request with a JSON body that presents a key whose
\* row is inactive is answered 401.
C29_KeyStore ==
    [][/\ \A row \in api_keys' :
             /\ DOMAIN row = {"hashed_key", "owner", "is_active"}
             /\ \E issue \in Issued :
                   /\ row.hashed_key = hash_api_key(issue[2])
                   /\ row.owner = issue[1]
       /\ \A row1, row2 \in api_keys' :
             row1.hashed_key = row2.hashed_key => row1 = row2
       /\ \A row \in Created :
             (\A old \in api_keys : old.hashed_key # row.hashed_key)
                => row.is_active
       /\ \A r \in Slots, issue \in Issued :
             (/\ Arrives(r)
              /\ req'[r].header = Some(issue[2])
              /\ req'[r].body.kind # "not-json")
                => IF ActiveRow(req'[r].header)
                   THEN /\ req'[r].status # 401
                        /\ req'[r].body.kind = "valid" =>
                              /\ req'[r].owner = Some(issue[1])
                              /\ req'[r].pc = "limit"
                   ELSE /\ req'[r].status = 401 /\ req'[r].pc = "done"
                        /\ req'[r].owner = None]_vars

\* a request that presented the key of alice has been authenticated as
\* alice, and one that presented the deactivated key of bob answered 401
C29_Witness ==
    \E r1, r2 \in Slots :
        /\ req[r1].header = Some("sk-A") /\ req[r1].owner = Some("alice")
        /\ req[r1].pc = "limit"
        /\ req[r2].header = Some("sk-B") /\ req[r2].status = 401
        /\ \E row \in api_keys :
              row.hashed_key = hash_api_key("sk-B") /\ ~row.is_active


-----------------------------------------------------------------------------
(* Provenance of the semantic index, checked under Spec.                   *)

\* request r has this cache key and this last content and called
\* set_to_cache and add_to_semantic_cache under the key
PutAndAdded(r, id, text) ==
    /\ req[r].pc = "done"
    /\ Key(r) = id /\ LastContent(r) = text
    /\ \E i \in Calls(req[r].trace, "set_to_cache") :
          req[r].trace[i].key = id
    /\ \E i \in Calls(req[r].trace, "add_to_semantic_cache") :
          req[r].trace[i].key = id /\ req[r].trace[i].text = text

-----------------------------------------------------------------------------
(* Properties of the provider call, checked under Spec.                    *)

-----------------------------------------------------------------------------
(* Provenance of the exact cache, checked under Spec.                      *)

\* request r has this cache key and an adapter returned this response to it
ReturnedBy(r, key, response) ==
    /\ req[r].pc = "done"
    /\ Key(r) = key
    /\ \E i \in Calls(req[r].trace, "create_completion") :
          req[r].trace[i].ret = response

-----------------------------------------------------------------------------
(* The caches and the principals, checked under SpecLimit.                 *)

\* request r2, answered in this step, arrived with the body of request r1
\* and another API key after r1 had been processed by the handler
RepeatsUnderOtherKey(r2, r1) ==
    /\ Answered(r2)
    /\ r1 \in req[r2].after
    /\ req[r1].pc = "done"
    /\ "exact get" \in Range(req[r1].stages)
    /\ req[r1].body = req[r2].body
    /\ req[r1].header # req[r2].header

\* C34: two requests with the same model, messages and options sent under
\* different API keys have the same cache key, and the second is answered
\* 200 with the response the first one got and stored.
C34_SharedAcrossKeys ==
    [][\A r1, r2 \in Slots :
          RepeatsUnderOtherKey(r2, r1) =>
              /\ Key(r1) = Key(r2)
              /\ req'[r2].status = 200
              /\ req'[r2].result = req[r1].result
              /\ req[r1].result # None]_vars


-----------------------------------------------------------------------------
(* Effects of a failed request, checked under SpecStages.                  *)

\* C35: a request that ends with an error status has called neither
\* set_to_cache nor add_to_semantic_cache, and the step in which it is
\* answered leaves the exact cache and the semantic index as they were.
C35_ErrorLeavesCaches ==
    [][\A r \in Slots :
          (Terminates(r) /\ req'[r].status >= 400) =>
              /\ redis' = redis
              /\ collection' = collection
              /\ Calls(req'[r].trace, "set_to_cache") = {}
              /\ Calls(req'[r].trace, "add_to_semantic_cache") = {}]_vars

\* a request for a model no provider lists has ended with an error after
\* its get, while the exact cache holds the entry of another request
C35_Witness ==
    \E r \in Slots :
        /\ req[r].pc = "done" /\ req[r].status = 500
        /\ Model(r) = UnlistedModel
        /\ Len(req[r].trace) >= 1
        /\ redis[Key(r)] = None
        /\ \E key \in CacheKeys : redis[key] # None


-----------------------------------------------------------------------------
(* The semantic cache in the pipeline, checked under Spec.                 *)

\* the index holds an entry near enough to the text whose response is
\* still in the exact cache
LiveSimilarEntry(text) ==
    \E entry \in collection :
        /\ 100 - Distance(text, entry.text) >= SimilarityThreshold
        /\ redis[entry.id] # None

\* C36: a request whose last content has an entry in the semantic index at
\* or above the threshold, with the response of that entry still in the
\* exact cache, is answered 200 from a cache without a call of
\* create_completion.
C36_SimilarEntryServes ==
    [][\A r \in Slots :
          (Answered(r) /\ LiveSimilarEntry(LastContent(r))
           /\ ~BackendFailed(r)) =>
              /\ req'[r].status = 200
              /\ \E key \in CacheKeys : req'[r].result = written[key]
              /\ Calls(req'[r].trace, "create_completion") = {}]_vars


-----------------------------------------------------------------------------
(* The status label of the request counter, checked under SpecSink.        *)

\* C37: every increment of gateway_requests_total a request has made bears
\* the status with which the request is answered as its status_code label,
\* and a request whose calls on the metrics all worked has made one.
C37_LabelIsStatus ==
    [][\A r \in Slots :
          Answered(r) =>
             LET counted == CallsOn(req'[r].emitted, "gateway_requests_total")
             IN /\ \A i \in 1..Len(counted) :
                      counted[i].label = ToString(req'[r].status)
                /\ req'[r].sink = "ok" => Len(counted) = 1]_vars

\* a request has been answered 500 and counted under the label 500, and
\* another 200 and counted under 200
C37_Witness ==
    \E r1, r2 \in Slots :
        /\ req[r1].pc = "done" /\ req[r1].status = 500
        /\ req[r2].pc = "done" /\ req[r2].status = 200
        /\ \A r \in {r1, r2} :
              \E i \in 1..Len(req[r].emitted) :
                  /\ req[r].emitted[i].metric = "gateway_requests_total"
                  /\ req[r].emitted[i].label = ToString(req[r].status)


-----------------------------------------------------------------------------
(* Unsupported provider names, checked under SpecUnsupported.              *)

\* the model is listed, and only by entries of unsupported provider names
ListedUnsupportedOnly(model_name) ==
    /\ \E i \in 1..Len(config) : model_name \in config[i].models
    /\ \A i \in 1..Len(config) :
          model_name \in config[i].models => config[i].name \notin AdapterNames

\* C38: for a model listed only by entries whose provider name is not
\* openai, google or anthropic get_provider raises ValueError, and a request
\* for that model is answered 400.
C38_UnsupportedIs400 ==
    [][\A r \in Slots :
          (Answered(r) /\ ListedUnsupportedOnly(Model(r))) =>
              /\ get_provider(Model(r)).raised = "ValueError"
              /\ req'[r].status = 400]_vars


-----------------------------------------------------------------------------
(* Termination of a request, checked under SpecLive.                       *)

\* C39: every request admitted by the limiter is answered in the end,
\* whatever the other requests do, and once it is answered its status and
\* result stay as they are until its slot is given up.
C39_Terminates ==
    /\ \A r \in Slots : (req[r].pc = "get") ~> (req[r].pc = "done")
    /\ [][\A r \in Slots :
             req[r].pc = "done" =>
                 \/ req'[r] = IdleReq
                 \/ /\ req'[r].pc = "done"
                    /\ req'[r].status = req[r].status
                    /\ req'[r].result = req[r].result]_vars

\* both requests were in the handler at the same time and one of them has
\* been answered while the other is still there
C39_Witness ==
    \E r1, r2 \in Slots :
        /\ req[r1].pc = "done" /\ req[r1].trace # <<>>
        /\ req[r2].pc = "get"
        /\ r1 \notin req[r2].after

====
